---------------------------- MODULE Spec2Model ----------------------------
(***************************************************************************)
(* A model of pdf-text-search: the OCR processing / caching pipeline       *)
(* (ocr/pdf_processor.py), the window that drives it and its background    *)
(* worker (gui/main_window.py) and the page viewer (gui/pdf_viewer.py).    *)
(*                                                                         *)
(* Conventions.  A Python str is a sequence of one-character strings, so   *)
(* that slicing, splitting and matching are computed and not assumed.      *)
(* Offsets are 0-based as in Python; Slice(t, a, b) is t[a:b].  A dict is  *)
(* a function; a dict key carries its Python type, <<"int", n>> for the    *)
(* int n and <<"str", n>> for the decimal string of n, because 0 and "0"   *)
(* are different keys.  A box carries its container type, "tuple" or       *)
(* "list", because (0, 0, 1, 1) and [0, 0, 1, 1] are different values.     *)
(***************************************************************************)
EXTENDS Integers, Sequences, FiniteSets, TLC

VARIABLES
    seed,            \* the interpreter's string-hash seed of this program run
    disk,            \* the PDFs on disk: path -> what OCR reads on each page
    mtime,           \* os.path.getmtime of every PDF on disk
    cache,           \* the files of ocr_cache/: cache path -> file content
    current_pdf,     \* PDFProcessor.current_pdf
    page_texts,      \* PDFProcessor.page_texts
    word_locations,  \* PDFProcessor.word_locations
    run,             \* the process_pages call in progress (its locals and position)
    older,           \* the earlier workers' calls that are still in progress
    progress,        \* the progress_updated signals the current run has emitted
    last,            \* the last call made on the processor and what it returned
    gui,             \* MainWindow: path field, button states, current_results
    viewer,          \* PDFViewer: current_pdf, current_page, highlights
    env              \* counters that bound the model: restarts, damaged
                     \* cache files, process_pages runs, user events

vars == <<seed, disk, mtime, cache, current_pdf, page_texts, word_locations,
          run, older, progress, last, gui, viewer, env>>

(***************************************************************************)
(* Bounds of the model.                                                    *)
(***************************************************************************)
MaxSeed == 1
MaxMtime == 1
MaxRestarts == 1
MaxDamage == 1
MaxFaults == 2
MaxRuns == 2
MaxEvents == 5
MaxPages == 2
MaxTokens == 2

(***************************************************************************)
(* Program constants.                                                      *)
(***************************************************************************)
ContextRadius == 50
Magnification == 2

Seeds == 0..MaxSeed

None == "None"

Min(S) == CHOOSE x \in S : \A y \in S : x <= y
Max(S) == CHOOSE x \in S : \A y \in S : x >= y

(***************************************************************************)
(* Python sequence operations.                                             *)
(***************************************************************************)
\* t[a:b] for a, b >= 0: a slice is clipped to the sequence and never raises
Slice(t, a, b) ==
    IF Min({b, Len(t)}) <= a THEN <<>> ELSE SubSeq(t, a + 1, Min({b, Len(t)}))

RECURSIVE Concat(_)
Concat(ss) == IF ss = <<>> THEN <<>> ELSE Head(ss) \o Concat(Tail(ss))

RECURSIVE Join(_, _)
Join(sep, ss) ==
    IF ss = <<>> THEN <<>>
    ELSE IF Len(ss) = 1 THEN Head(ss)
    ELSE Head(ss) \o sep \o Join(sep, Tail(ss))

(***************************************************************************)
(* The PDFs on disk.  The OCR capability is external: what it returns for  *)
(* a page is an input.  disk[path] lists, page by page, the result of a    *)
(* successful OCR call on the page: a sequence of lines, each a sequence   *)
(* of word_info entries, here [quad, text].  Whether a call succeeds is    *)
(* chosen at the call.  Pixel coordinates are even, so the division by the *)
(* magnification is exact.                                                 *)
(***************************************************************************)
Paths == {"a.pdf", "b.pdf"}
BadPath == "bad.pdf"
PathInputs == Paths \cup {BadPath}

Quad(x, y, w, h) == << <<x, y>>, <<x + w, y>>, <<x + w, y + h>>, <<x, y + h>> >>

\* a.pdf: two pages, "ab a" and "A"; b.pdf: one page of two lines, the
\* first token holding a space: "b a" and "a"
DocA ==
    << << << [quad |-> Quad(0, 0, 4, 2), text |-> <<"a", "b">>],
             [quad |-> Quad(6, 0, 2, 2), text |-> <<"a">>] >> >>,
       << << [quad |-> Quad(0, 4, 2, 2), text |-> <<"A">>] >> >> >>

DocB ==
    << << << [quad |-> Quad(2, 2, 6, 2), text |-> <<"b", " ", "a">>] >>,
          << [quad |-> Quad(2, 6, 2, 2), text |-> <<"a">>] >> >> >>

Disk == [path \in Paths |-> IF path = "a.pdf" THEN DocA ELSE DocB]

\* The documents a search is checked on.  A page is one line of tokens (or
\* no line at all), every token with a box of its own; one token is free of
\* whitespace and one holds a space.  The first page has up to MaxTokens
\* tokens, each page after it at most one; there are up to MaxPages pages.
Tokens == { <<"a", "B">>, <<"b", " ", "a">> }

LineOf(tokens) ==
    IF tokens = <<>> THEN <<>>
    ELSE << [i \in 1..Len(tokens) |->
                [quad |-> Quad(8 * i, 0, 6, 2), text |-> tokens[i]]] >>

PageResults ==
    {LineOf(tokens) : tokens \in UNION {[1..n -> Tokens] : n \in 0..MaxTokens}}

LaterPageResults == {LineOf(tokens) : tokens \in {<<>>} \cup {<<t>> : t \in Tokens}}

Docs ==
    UNION { {doc \in [1..n -> PageResults] :
                \A p \in 2..n : doc[p] \in LaterPageResults} :
            n \in 1..MaxPages }

\* A page longer than two context windows: "a", a filler, "ab", a filler.
Filler == [i \in 1..(ContextRadius + 1) |-> "x"]

LongDoc ==
    << << << [quad |-> Quad(0, 0, 2, 2),
              text |-> <<"a">> \o Filler \o <<"a", "b">> \o Filler] >> >> >>

\* len(self.current_pdf) and the OCR result of page p (0-based)
PageCount(path) == Len(disk[path])
OcrResult(path, p) == disk[path][p + 1]

(***************************************************************************)
(* Dicts and JSON.                                                         *)
(***************************************************************************)
EmptyDict == <<>>

IntKey(n) == <<"int", n>>
StrKey(n) == <<"str", n>>

\* dict.get(key, default)
Get(d, key, default) == IF key \in DOMAIN d THEN d[key] ELSE default

\* d[key] = value
Put(d, key, value) ==
    [k \in DOMAIN d \cup {key} |-> IF k = key THEN value ELSE d[k]]

\* json.dump then json.load of a dict: every key becomes a string (an int
\* key n is written as "n"), and the reader keeps the last of two equal
\* keys.  Only json.load creates str keys and it replaces the whole dict,
\* so an int key is always the later insertion.
JsonKeys(d) == {StrKey(k[2]) : k \in DOMAIN d}
JsonSource(d, k) == IF IntKey(k[2]) \in DOMAIN d THEN IntKey(k[2]) ELSE k

\* a tuple is written as a JSON array and read back as a list
JsonBox(b) == <<"list", b[2]>>

JsonPage(d) == [k \in JsonKeys(d) |-> JsonBox(d[JsonSource(d, k)])]

JsonLocations(d) == [k \in JsonKeys(d) |-> JsonPage(d[JsonSource(d, k)])]

\* The content of a cache file, as json.load sees it.
JsonFile(texts, locations) ==
    [json |-> "object", fields |-> {"texts", "locations"},
     texts |-> texts, locations |-> JsonLocations(locations)]

\* Damaged cache files: not JSON at all, or an object that lost a field.
Damaged(file) ==
    { [file EXCEPT !.json = "garbage", !.fields = {},
                   !.texts = <<>>, !.locations = EmptyDict],
      [file EXCEPT !.fields = {"locations"}, !.texts = <<>>],
      [file EXCEPT !.fields = {"texts"}, !.locations = EmptyDict] }

WellFormed(file) == file.json = "object" /\ file.fields = {"texts", "locations"}

(***************************************************************************)
(* PDFProcessor.get_cache_path: str(hash(pdf_path + str(mtime))).  The     *)
(* built-in hash of a str is keyed by a seed drawn when the interpreter    *)
(* starts; within one run it is a function of the string.                  *)
(***************************************************************************)
PathCode(path) == IF path = "a.pdf" THEN 1 ELSE 2

PyHash(s, path, m) == s * 100 + PathCode(path) * 10 + m

get_cache_path(pdf_path) == PyHash(seed, pdf_path, mtime[pdf_path])

(***************************************************************************)
(* PDFProcessor.load_pdf, as the values it leaves in the three fields and  *)
(* the value it returns.  The statements run in the code's order, so an    *)
(* exception leaves the assignments made before it in place.               *)
(***************************************************************************)
Loaded(ret, pdf, texts, locations) ==
    [ret |-> ret, current_pdf |-> pdf, page_texts |-> texts,
     word_locations |-> locations]

load_pdf(pdf_path) ==
    IF pdf_path \notin Paths
    THEN \* fitz.open raises
         Loaded(FALSE, current_pdf, page_texts, word_locations)
    ELSE LET cache_path == get_cache_path(pdf_path) IN
         IF cache_path \in DOMAIN cache
         THEN LET cached_data == cache[cache_path] IN
              IF cached_data.json # "object"
              THEN \* json.load raises
                   Loaded(FALSE, pdf_path, page_texts, word_locations)
              ELSE IF "texts" \notin cached_data.fields
              THEN \* KeyError 'texts'
                   Loaded(FALSE, pdf_path, page_texts, word_locations)
              ELSE IF "locations" \notin cached_data.fields
              THEN \* KeyError 'locations', after page_texts was assigned
                   Loaded(FALSE, pdf_path, cached_data.texts, word_locations)
              ELSE Loaded(TRUE, pdf_path, cached_data.texts,
                          cached_data.locations)
         ELSE Loaded(TRUE, pdf_path, <<>>, EmptyDict)

\* What the cache held for pdf_path when load_pdf looked.
CacheState(pdf_path) ==
    IF pdf_path \notin Paths THEN "unopened"
    ELSE IF get_cache_path(pdf_path) \notin DOMAIN cache THEN "absent"
    ELSE IF WellFormed(cache[get_cache_path(pdf_path)]) THEN "valid"
    ELSE "corrupt"

(***************************************************************************)
(* PDFProcessor.process_pages, one page.                                   *)
(***************************************************************************)
\* the word_info entries of an OCR result in line-then-word order
Words(result) == Concat(result)

\* the axis-aligned rectangle of a quadrilateral, descaled
Rect(bbox) ==
    <<"tuple",
      << Min({bbox[i][1] : i \in 1..4}) \div Magnification,
         Min({bbox[i][2] : i \in 1..4}) \div Magnification,
         Max({bbox[i][1] : i \in 1..4}) \div Magnification,
         Max({bbox[i][2] : i \in 1..4}) \div Magnification >> >>

PageText(result) ==
    Join(<<" ">>, [i \in 1..Len(Words(result)) |-> Words(result)[i].text])

PageLocations(result) ==
    [k \in {IntKey(i - 1) : i \in 1..Len(Words(result))} |->
        Rect(Words(result)[k[2] + 1].quad)]

(***************************************************************************)
(* PDFProcessor.search_text.  re.escape makes the keyword a literal, and   *)
(* re.IGNORECASE compares case-folded characters.                          *)
(***************************************************************************)
Lower(c) == IF c = "A" THEN "a" ELSE IF c = "B" THEN "b" ELSE c

CaseFold(t) == [i \in 1..Len(t) |-> Lower(t[i])]

\* the pattern matches the text at offset pos
MatchesAt(keyword, t, pos) ==
    /\ pos + Len(keyword) <= Len(t)
    /\ CaseFold(Slice(t, pos, pos + Len(keyword))) = CaseFold(keyword)

\* the leftmost offset at or after pos where the pattern matches, or -1
NextMatch(keyword, t, pos) ==
    LET found == {p \in pos..(Len(t) - Len(keyword)) : MatchesAt(keyword, t, p)}
    IN  IF found = {} THEN -1 ELSE Min(found)

\* re.finditer: the start offsets of the non-overlapping matches, scanning
\* from pos to the right.  An empty pattern matches at every offset, the
\* end of the text included.
RECURSIVE FindIter(_, _, _)
FindIter(keyword, t, pos) ==
    IF keyword = <<>>
    THEN [i \in 1..(Len(t) - pos + 1) |-> pos + i - 1]
    ELSE LET s == NextMatch(keyword, t, pos) IN
         IF s < 0 THEN <<>>
         ELSE <<s>> \o FindIter(keyword, t, s + Len(keyword))

Marker == <<"*", "*">>
Ellipsis == <<".", ".", ".">>

\* re.sub(f'({re.escape(keyword)})', r'**\1**', t, flags=re.IGNORECASE):
\* every non-overlapping match in t, scanning from pos, is wrapped.
RECURSIVE SubFrom(_, _, _)
SubFrom(keyword, t, pos) ==
    LET s == NextMatch(keyword, t, pos) IN
    IF s < 0 THEN Slice(t, pos, Len(t))
    ELSE Slice(t, pos, s) \o Marker \o Slice(t, s, s + Len(keyword)) \o Marker
         \o SubFrom(keyword, t, s + Len(keyword))

\* With an empty pattern the empty match before every character and the one
\* at the end are each replaced by two markers: "****" c1 "****" c2 ... "****".
ReSub(keyword, t) ==
    IF keyword = <<>>
    THEN [j \in 1..(5 * Len(t) + 4) |->
            IF (j - 1) % 5 < 4 THEN "*" ELSE t[(j - 1) \div 5 + 1]]
    ELSE SubFrom(keyword, t, 0)

\* len(t.split()): the number of maximal runs of non-whitespace characters
SplitCount(t) ==
    Cardinality({i \in 1..Len(t) :
                    t[i] # " " /\ (i = 1 \/ t[i - 1] = " ")})

ZeroRect == <<"tuple", <<0, 0, 0, 0>>>>

\* the window of a match starting at offset s
WindowStart(s) == Max({0, s - ContextRadius})
WindowEnd(keyword, t, s) == Min({Len(t), s + Len(keyword) + ContextRadius})

Context(keyword, t, s) ==
    ReSub(keyword, Slice(t, WindowStart(s), WindowEnd(keyword, t, s)))

\* the SearchResult of the match at offset s of page page_num (1-based)
Match(keyword, page_num, page_text, s) ==
    [page |-> page_num,
     context |-> Ellipsis \o Context(keyword, page_text, s) \o Ellipsis,
     position |-> s,
     bbox |-> Get(Get(word_locations, IntKey(page_num - 1), EmptyDict),
                  IntKey(SplitCount(Slice(page_text, 0, s))), ZeroRect)]

PageMatches(keyword, page_num) ==
    LET page_text == page_texts[page_num]
        found == FindIter(keyword, page_text, 0)
    IN  [i \in 1..Len(found) |->
            Match(keyword, page_num, page_text, found[i])]

\* the pages scanned from the last to the first
search_text_LastPageFirst(keyword) ==
    Concat([i \in 1..Len(page_texts) |->
               PageMatches(keyword, Len(page_texts) + 1 - i)])

search_text(keyword) ==
    Concat([page_num \in 1..Len(page_texts) |-> PageMatches(keyword, page_num)])

(***************************************************************************)
(* The state after construction: PDFProcessor.__init__, MainWindow and     *)
(* PDFViewer as built, an empty ocr_cache/ directory.                      *)
(***************************************************************************)
Idle ==
    [pc |-> "idle", page_num |-> 0, total_pages |-> 0, raised |-> FALSE,
     result |-> <<>>, failed |-> {}, load_cache |-> "none", saved |-> 0]

NoCall == [op |-> "none", path |-> None, ret |-> TRUE, cache |-> "none",
           cache_path |-> 0, mtime |-> 0, keyword |-> <<>>, matches |-> <<>>]

GuiInit ==
    [file_path_input |-> "", process_enabled |-> TRUE,
     search_enabled |-> TRUE, current_results |-> <<>>]

ViewerInit == [current_pdf |-> None, current_page |-> 0, highlights |-> <<>>]

Init ==
    /\ seed \in Seeds
    /\ disk = Disk
    /\ mtime = [p \in Paths |-> 0]
    /\ cache = EmptyDict
    /\ current_pdf = None
    /\ page_texts = <<>>
    /\ word_locations = EmptyDict
    /\ run = Idle
    /\ older = <<>>
    /\ progress = <<>>
    /\ last = NoCall
    /\ gui = GuiInit
    /\ viewer = ViewerInit
    /\ env = [restarts |-> 0, damage |-> 0, touches |-> 0, runs |-> 0, events |-> 0]

(***************************************************************************)
(* The environment: the program is started again (a new interpreter, a new *)
(* hash seed, the cache directory as it was left), a PDF is modified, a    *)
(* cache file is damaged.                                                  *)
(***************************************************************************)
\* the environment's events so far
Faults == env.restarts + env.damage + env.touches

Restart ==
    /\ env.restarts < MaxRestarts
    /\ Faults < MaxFaults
    /\ env' = [env EXCEPT !.restarts = @ + 1]
    /\ seed' \in Seeds
    /\ current_pdf' = None
    /\ page_texts' = <<>>
    /\ word_locations' = EmptyDict
    /\ run' = Idle
    /\ older' = <<>>
    /\ progress' = <<>>
    /\ last' = NoCall
    /\ gui' = GuiInit
    /\ viewer' = ViewerInit
    /\ UNCHANGED <<disk, mtime, cache>>

Touch(path) ==
    /\ mtime[path] < MaxMtime
    /\ Faults < MaxFaults
    /\ mtime' = [mtime EXCEPT ![path] = @ + 1]
    /\ env' = [env EXCEPT !.touches = @ + 1]
    /\ UNCHANGED <<seed, disk, cache, current_pdf, page_texts, word_locations, run,
                   progress, last, older, gui, viewer>>

Damage(cache_path) ==
    /\ env.damage < MaxDamage
    /\ Faults < MaxFaults
    /\ cache_path \in DOMAIN cache
    /\ WellFormed(cache[cache_path])
    /\ \E file \in Damaged(cache[cache_path]) :
           cache' = [cache EXCEPT ![cache_path] = file]
    /\ env' = [env EXCEPT !.damage = @ + 1]
    /\ UNCHANGED <<seed, disk, mtime, current_pdf, page_texts, word_locations, run,
                   progress, last, older, gui, viewer>>

(***************************************************************************)
(* process_pages, in the steps at which another thread can be scheduled:   *)
(* the entry (lines 61-66), the rasterization and OCR call of one page     *)
(* (69-77), the indexing of its result or the except branch (79-102), the  *)
(* cache write (104-113).                                                  *)
(***************************************************************************)
Called(load_cache) ==
    [Idle EXCEPT !.pc = "entry", !.load_cache = load_cache]

\* the loop left after its first page
AfterPage_OnePageOnly(n, total) == IF n < 1 /\ n < total THEN "page" ELSE "save"

AfterPage(n, total) == IF n < total THEN "page" ELSE "save"

\* The calls in progress: 0 is the latest, 1..Len(older) the earlier ones.
Threads == 0..Len(older)
Thread(i) == IF i = 0 THEN run ELSE older[i]
SetThread(i, w) ==
    IF i = 0
    THEN run' = w /\ UNCHANGED older
    ELSE older' = [older EXCEPT ![i] = w] /\ UNCHANGED run

Entry ==
    \E i \in Threads :
        LET w == Thread(i) IN
        /\ w.pc = "entry"
        /\ IF current_pdf = None
           THEN /\ SetThread(i, [w EXCEPT !.pc = "done"])
                /\ UNCHANGED <<page_texts, word_locations>>
           ELSE /\ SetThread(i, [w EXCEPT
                                   !.total_pages = PageCount(current_pdf),
                                   !.pc = AfterPage(0, PageCount(current_pdf))])
                /\ page_texts' = <<>>
                /\ word_locations' = EmptyDict
        /\ UNCHANGED <<seed, disk, mtime, cache, current_pdf, progress, last,
                       gui, viewer, env>>

\* self.current_pdf[page_num], get_pixmap and self.ocr.ocr: any of them may
\* raise; a page number past the end of the document always does.
Ocr ==
    \E i \in Threads, ok \in BOOLEAN :
        LET w == Thread(i)
            inside == w.page_num < PageCount(current_pdf)
        IN
        /\ w.pc = "page"
        /\ SetThread(i, [w EXCEPT
                           !.pc = "store",
                           !.raised = ~(ok /\ inside),
                           !.result = IF ok /\ inside
                                      THEN OcrResult(current_pdf, w.page_num)
                                      ELSE <<>>])
        /\ UNCHANGED <<seed, disk, mtime, cache, current_pdf, page_texts,
                       word_locations, progress, last, gui, viewer, env>>

Store ==
    \E i \in Threads :
        LET w == Thread(i) IN
        /\ w.pc = "store"
        /\ IF w.raised
           THEN \* except: status_updated.emit(...); continue
                /\ SetThread(i, [w EXCEPT
                                   !.failed = @ \cup {w.page_num},
                                   !.page_num = @ + 1,
                                   !.pc = AfterPage(w.page_num + 1,
                                                    w.total_pages),
                                   !.raised = FALSE])
                /\ UNCHANGED <<page_texts, word_locations, progress>>
           ELSE /\ page_texts' = Append(page_texts, PageText(w.result))
                /\ word_locations' = Put(word_locations, IntKey(w.page_num),
                                         PageLocations(w.result))
                /\ progress' = Append(progress,
                                      <<w.page_num + 1, w.total_pages>>)
                /\ SetThread(i, [w EXCEPT
                                   !.page_num = @ + 1,
                                   !.pc = AfterPage(w.page_num + 1,
                                                    w.total_pages),
                                   !.result = <<>>])
        /\ UNCHANGED <<seed, disk, mtime, cache, current_pdf, last, gui,
                       viewer, env>>

Save ==
    \E i \in Threads :
        LET w == Thread(i) IN
        /\ w.pc = "save"
        /\ cache' = Put(cache, get_cache_path(current_pdf),
                        JsonFile(page_texts, word_locations))
        /\ SetThread(i, [w EXCEPT !.pc = "done",
                                  !.saved = get_cache_path(current_pdf)])
        /\ UNCHANGED <<seed, disk, mtime, current_pdf, page_texts,
                       word_locations, progress, last, gui, viewer, env>>

(***************************************************************************)
(* The processor used on its own, one call after the other: load_pdf and   *)
(* process_pages called by a single-threaded client.                       *)
(***************************************************************************)
\* the record of a load_pdf call: what it was given, what it found in the
\* cache directory, what it returned
Call(pdf_path, ret) ==
    [NoCall EXCEPT
       !.op = "load_pdf", !.path = pdf_path, !.ret = ret,
       !.cache = CacheState(pdf_path),
       !.cache_path = IF pdf_path \in Paths THEN get_cache_path(pdf_path) ELSE 0,
       !.mtime = IF pdf_path \in Paths THEN mtime[pdf_path] ELSE 0]

Returned == run.pc \in {"idle", "done"}

CallLoadPdf(pdf_path) ==
    /\ Returned
    /\ LET r == load_pdf(pdf_path) IN
         /\ current_pdf' = r.current_pdf
         /\ page_texts' = r.page_texts
         /\ word_locations' = r.word_locations
         /\ last' = Call(pdf_path, r.ret)
    /\ run' = Idle
    /\ UNCHANGED <<seed, disk, mtime, cache, progress, older, gui, viewer, env>>

CallProcessPages ==
    /\ Returned
    /\ env.runs < MaxRuns
    /\ env' = [env EXCEPT !.runs = @ + 1]
    /\ run' = Called(last.cache)
    /\ progress' = <<>>
    /\ last' = [NoCall EXCEPT !.op = "process_pages"]
    /\ UNCHANGED <<seed, disk, mtime, cache, current_pdf, page_texts,
                   word_locations, older, gui, viewer>>

NextProc ==
    \/ \E pdf_path \in PathInputs : CallLoadPdf(pdf_path)
    \/ CallProcessPages
    \/ Entry
    \/ Ocr
    \/ Store
    \/ Save
    \/ Restart
    \/ \E path \in Paths : Touch(path)
    \/ \E cache_path \in DOMAIN cache : Damage(cache_path)

SpecProc == Init /\ [][NextProc]_vars

(***************************************************************************)
(* PDFViewer.  page_changed is connected to MainWindow.on_page_changed,    *)
(* which clears the highlights, and is delivered inside show_page.         *)
(***************************************************************************)
show_page(v, page_num) ==
    IF v.current_pdf = None THEN v
    ELSE IF 0 <= page_num /\ page_num < PageCount(v.current_pdf)
    THEN [v EXCEPT !.current_page = page_num, !.highlights = <<>>]
    ELSE v

\* fitz.open raises on a file it cannot read; the except branch shows a text
viewer_load_pdf(v, pdf_path) ==
    IF pdf_path \in Paths
    THEN show_page([v EXCEPT !.current_pdf = pdf_path], 0)
    ELSE v

jump_to_result(v, result) ==
    [show_page(v, result.page - 1) EXCEPT !.highlights = <<result.bbox>>]

(***************************************************************************)
(* MainWindow: the user's events and the worker's finished signal.  Every  *)
(* handler runs on the GUI thread, between any two steps of the workers.   *)
(***************************************************************************)
UserEvent ==
    /\ env.events < MaxEvents
    /\ env' = [env EXCEPT !.events = @ + 1]

\* the line edit is editable: any path can be typed into it
EditPath(text) ==
    /\ UserEvent
    /\ gui' = [gui EXCEPT !.file_path_input = text]
    /\ UNCHANGED <<seed, disk, mtime, cache, current_pdf, page_texts,
                   word_locations, run, older, progress, last, viewer>>

browse_file(file_name) ==
    /\ UserEvent
    /\ viewer' = viewer_load_pdf(viewer, file_name)
    /\ LET r == load_pdf(file_name) IN
         /\ current_pdf' = r.current_pdf
         /\ page_texts' = r.page_texts
         /\ word_locations' = r.word_locations
         /\ last' = Call(file_name, r.ret)
         /\ gui' = IF ~r.ret
                   THEN [gui EXCEPT !.file_path_input = file_name]
                   ELSE [gui EXCEPT !.file_path_input = file_name,
                                    !.process_enabled = (r.page_texts = <<>>),
                                    !.search_enabled = (r.page_texts # <<>>)]
    /\ UNCHANGED <<seed, disk, mtime, cache, run, older, progress>>

\* a worker that has not delivered its finished signal stays among the calls
\* in progress when self.ocr_worker is assigned the next one
Superseded == IF run.pc = "idle" THEN older ELSE Append(older, run)

process_pdf ==
    LET pdf_path == gui.file_path_input
        r == load_pdf(pdf_path)
        starts == pdf_path # "" /\ r.ret
    IN
    /\ gui.process_enabled
    /\ env.events < MaxEvents
    /\ starts => env.runs < MaxRuns
    /\ env' = [env EXCEPT !.events = @ + 1,
                          !.runs = IF starts THEN @ + 1 ELSE @]
    /\ IF pdf_path = ""
       THEN \* "Please select a PDF file first"
            UNCHANGED <<current_pdf, page_texts, word_locations, last>>
       ELSE /\ current_pdf' = r.current_pdf
            /\ page_texts' = r.page_texts
            /\ word_locations' = r.word_locations
            /\ last' = Call(pdf_path, r.ret)
    /\ IF starts
       THEN /\ gui' = [gui EXCEPT !.process_enabled = FALSE,
                                  !.search_enabled = FALSE]
            /\ run' = Called(CacheState(pdf_path))
            /\ older' = Superseded
            /\ progress' = <<>>
       ELSE UNCHANGED <<gui, run, older, progress>>
    /\ UNCHANGED <<seed, disk, mtime, cache, viewer>>

\* a sequence without its i-th element
Without(q, i) == SubSeq(q, 1, i - 1) \o SubSeq(q, i + 1, Len(q))

\* OCRWorker.run emits finished when process_pages has returned; the signal
\* is queued to the GUI thread.
on_processing_finished ==
    \E i \in Threads :
        /\ Thread(i).pc = "done"
        /\ IF i = 0
           THEN run' = Idle /\ UNCHANGED older
           ELSE older' = Without(older, i) /\ UNCHANGED run
        /\ gui' = [gui EXCEPT !.process_enabled = FALSE,
                              !.search_enabled = TRUE]
        /\ UNCHANGED <<seed, disk, mtime, cache, current_pdf, page_texts,
                       word_locations, progress, last, viewer, env>>

\* MainWindow.search_text, reached from the Search button (when it is
\* enabled) and from Return in the search field (always)
Searching(keyword) ==
    /\ UserEvent
    /\ IF keyword = <<>>
       THEN \* "Please enter a search term"
            UNCHANGED <<gui, last>>
       ELSE /\ gui' = [gui EXCEPT !.current_results = search_text(keyword)]
            /\ last' = [NoCall EXCEPT !.op = "search_text",
                                      !.keyword = keyword,
                                      !.matches = search_text(keyword)]
    /\ UNCHANGED <<seed, disk, mtime, cache, current_pdf, page_texts,
                   word_locations, run, older, progress, viewer>>

SearchClicked(keyword) == gui.search_enabled /\ Searching(keyword)

SearchReturnPressed(keyword) == Searching(keyword)

\* a double click on the i-th result of the results pane
result_clicked(i) ==
    /\ UserEvent
    /\ i \in 1..Len(gui.current_results)
    /\ viewer' = jump_to_result(viewer, gui.current_results[i])
    /\ UNCHANGED <<seed, disk, mtime, cache, current_pdf, page_texts,
                   word_locations, run, older, progress, last, gui>>

previous_page ==
    /\ UserEvent
    /\ viewer.current_page > 0
    /\ viewer' = show_page(viewer, viewer.current_page - 1)
    /\ UNCHANGED <<seed, disk, mtime, cache, current_pdf, page_texts,
                   word_locations, run, older, progress, last, gui>>

next_page ==
    /\ UserEvent
    /\ viewer.current_pdf # None
    /\ viewer.current_page < PageCount(viewer.current_pdf) - 1
    /\ viewer' = show_page(viewer, viewer.current_page + 1)
    /\ UNCHANGED <<seed, disk, mtime, cache, current_pdf, page_texts,
                   word_locations, run, older, progress, last, gui>>

\* the spin box ranges over 1..len(current_pdf) once a document is shown
page_spin_changed(value) ==
    /\ UserEvent
    /\ viewer.current_pdf # None => value <= PageCount(viewer.current_pdf)
    /\ viewer' = show_page(viewer, value - 1)
    /\ UNCHANGED <<seed, disk, mtime, cache, current_pdf, page_texts,
                   word_locations, run, older, progress, last, gui>>

GuiKeywords == { <<>>, <<"a">> }

Next ==
    \/ \E text \in PathInputs : EditPath(text)
    \/ \E file_name \in PathInputs : browse_file(file_name)
    \/ process_pdf
    \/ Entry
    \/ Ocr
    \/ Store
    \/ Save
    \/ on_processing_finished
    \/ \E keyword \in GuiKeywords : SearchClicked(keyword)
    \/ \E keyword \in GuiKeywords : SearchReturnPressed(keyword)
    \/ \E i \in 1..Len(gui.current_results) : result_clicked(i)
    \/ previous_page
    \/ next_page
    \/ \E value \in 1..MaxPages : page_spin_changed(value)

Spec == Init /\ [][Next]_vars

(***************************************************************************)
(* Claims about the processor used on its own (SpecProc).                  *)
(***************************************************************************)
Finished == run.pc = "done" /\ current_pdf # None

\* C1: when process_pages finishes, page_texts has exactly one entry per
\* page of the document, however many pages failed.
C1_OneTextPerPage == Finished => Len(page_texts) = PageCount(current_pdf)

\* C2: when process_pages finishes, a page whose OCR call failed has the
\* empty string as its text and an empty mapping as its locations, and a
\* page that succeeded has its tokens joined by single spaces and its token
\* boxes, each at the page's own position.
C2_FailedPageIsEmpty ==
    Finished =>
        \A p \in 0..(run.total_pages - 1) :
            /\ Len(page_texts) > p
            /\ IntKey(p) \in DOMAIN word_locations
            /\ IF p \in run.failed
               THEN /\ page_texts[p + 1] = <<>>
                    /\ word_locations[IntKey(p)] = EmptyDict
               ELSE /\ page_texts[p + 1] = PageText(OcrResult(current_pdf, p))
                    /\ word_locations[IntKey(p)] =
                           PageLocations(OcrResult(current_pdf, p))

\* C3: a load_pdf that finds a corrupt cache entry for the document returns
\* success with empty page_texts and word_locations, as on a cache miss.
C3_CorruptIsMiss ==
    (last.op = "load_pdf" /\ last.cache = "corrupt") =>
        /\ last.ret
        /\ current_pdf = last.path
        /\ page_texts = <<>>
        /\ word_locations = EmptyDict

\* The step is a load_pdf call (no other step of a single-threaded client
\* leaves the disk and the counters alone and ends with a load recorded).
LoadStep == last'.op = "load_pdf" /\ UNCHANGED <<seed, mtime, cache, env>>

\* C4: a load_pdf that reads the cache entry which the process_pages run
\* just finished wrote restores page_texts and word_locations unchanged.
C4_RoundTrip ==
    [][(LoadStep /\ run.pc = "done" /\ last'.ret
          /\ last'.cache = "valid" /\ last'.cache_path = run.saved)
        => (page_texts' = page_texts /\ word_locations' = word_locations)]_vars

\* C6: a load_pdf that returns failure leaves current_pdf, page_texts and
\* word_locations as they were; one that returns success leaves all three
\* belonging to the document it was given (its cache entry, or empty).
C6_LoadIsAtomic ==
    [][LoadStep =>
         IF last'.ret
         THEN /\ current_pdf' = last'.path
              /\ IF last'.cache = "absent"
                 THEN page_texts' = <<>> /\ word_locations' = EmptyDict
                 ELSE /\ page_texts' = cache[last'.cache_path].texts
                      /\ word_locations' = cache[last'.cache_path].locations
         ELSE UNCHANGED <<current_pdf, page_texts, word_locations>>]_vars

\* C7: a finished process_pages run over N pages has emitted the progress
\* notifications (1, N), (2, N), ..., (N, N), one per page, in this order.
C7_ProgressPerPage ==
    Finished =>
        progress = [i \in 1..run.total_pages |-> <<i, run.total_pages>>]

\* C9: a document whose well-formed cache entry for its current (path,
\* mtime) is on disk, written by this or an earlier program run, is a cache
\* hit when it is loaded.
C9_HitAcrossRuns ==
    (last.op = "load_pdf" /\ last.path \in Paths) =>
        \A s \in Seeds :
            LET cache_path == PyHash(s, last.path, last.mtime) IN
            (cache_path \in DOMAIN cache /\ WellFormed(cache[cache_path]))
                => last.cache = "valid"

(***************************************************************************)
(* The search engine on the index of an arbitrary document: a.pdf is any   *)
(* document of Docs, it is processed or restored from the cache by the     *)
(* processor's own operations, and search_text is called on the result.    *)
(***************************************************************************)
Keywords == { <<>>, <<"a">>, <<"b">>, <<"A", "b">>, <<"b", " ", "a">> }

CallSearchText(keyword) ==
    /\ Returned
    /\ last' = [NoCall EXCEPT !.op = "search_text", !.keyword = keyword,
                              !.matches = search_text(keyword)]
    /\ UNCHANGED <<seed, disk, mtime, cache, current_pdf, page_texts,
                   word_locations, run, progress, older, gui, viewer, env>>

InitSearch ==
    /\ seed = 0
    /\ disk \in {[Disk EXCEPT !["a.pdf"] = doc] : doc \in Docs \cup {LongDoc}}
    /\ mtime = [p \in Paths |-> 0]
    /\ cache = EmptyDict
    /\ current_pdf = None
    /\ page_texts = <<>>
    /\ word_locations = EmptyDict
    /\ run = Idle
    /\ older = <<>>
    /\ progress = <<>>
    /\ last = NoCall
    /\ gui = GuiInit
    /\ viewer = ViewerInit
    /\ env = [restarts |-> 0, damage |-> 0, touches |-> 0, runs |-> 0, events |-> 0]

NextSearch ==
    \/ CallLoadPdf("a.pdf")
    \/ CallProcessPages
    \/ Entry
    \/ Ocr
    \/ Store
    \/ Save
    \/ \E keyword \in Keywords : CallSearchText(keyword)

SpecSearch == InitSearch /\ [][NextSearch]_vars

Searched == last.op = "search_text"

\* C5: search_text("") returns no result, whatever the index holds.
C5_EmptyKeywordNoResult ==
    (Searched /\ last.keyword = <<>>) => last.matches = <<>>

\* the window w with exactly the span [a, a + n) wrapped in markers
Emphasized(w, a, n) ==
    Slice(w, 0, a) \o Marker \o Slice(w, a, a + n) \o Marker
        \o Slice(w, a + n, Len(w))

\* C10: the context of a match at offset s of a non-empty keyword k in the
\* page text t is "..." + w + "..." where w is t[max(0, s-50) :
\* min(len(t), s+len(k)+50)] with exactly the matched span wrapped in
\* emphasis markers.
C10_ContextOfMatch ==
    (Searched /\ last.keyword # <<>>) =>
        \A i \in 1..Len(last.matches) :
            LET r == last.matches[i]
                t == page_texts[r.page]
                k == last.keyword
                start == Max({0, r.position - ContextRadius})
                end == Min({Len(t), r.position + Len(k) + ContextRadius})
            IN  r.context =
                    Ellipsis
                    \o Emphasized(SubSeq(t, start + 1, end),
                                  r.position - start, Len(k))
                    \o Ellipsis


\* the keys of the dictionary d that stand for the number n, as an int or
\* as the string of its digits
KeysOf(d, n) == {key \in DOMAIN d : key[2] = n}

\* the four coordinates stored for word ordinal n of page p (0-based) in the
\* Word Location Index, or those of the sentinel when the index holds none
StoredBox(p, n) ==
    IF KeysOf(word_locations, p) = {} THEN ZeroRect[2]
    ELSE LET page == word_locations[CHOOSE key \in KeysOf(word_locations, p) : TRUE]
         IN  IF KeysOf(page, n) = {} THEN ZeroRect[2]
             ELSE page[CHOOSE key \in KeysOf(page, n) : TRUE][2]

\* C11: every result's box is the one the page's Word Location Index
\* stores under the word ordinal of the match, the number of
\* whitespace-delimited tokens of the page text before the match start; it
\* is the sentinel (0,0,0,0) when the index holds no such page or ordinal.
C11_BoxOfOrdinal ==
    Searched =>
        \A i \in 1..Len(last.matches) :
            LET r == last.matches[i]
                t == page_texts[r.page]
            IN  r.bbox[2] =
                    StoredBox(r.page - 1, SplitCount(Slice(t, 0, r.position)))

\* C12: search_text returns one result per match, sorted by page number
\* ascending and, within a page, by match offset strictly ascending.
C12_ScanOrder ==
    Searched =>
        /\ \A i \in 1..Len(last.matches) :
              LET r == last.matches[i] IN
              /\ r.page \in 1..Len(page_texts)
              /\ MatchesAt(last.keyword, page_texts[r.page], r.position)
        /\ \A i, j \in 1..Len(last.matches) :
              i < j =>
                \/ last.matches[i].page < last.matches[j].page
                \/ /\ last.matches[i].page = last.matches[j].page
                   /\ last.matches[i].position < last.matches[j].position
        /\ \A p \in 1..Len(page_texts) :
              Cardinality({i \in 1..Len(last.matches) : last.matches[i].page = p})
                  = Len(FindIter(last.keyword, page_texts[p], 0))

\* a search with two matches on page 1 and one on page 2
C12_Witness ==
    /\ Searched
    /\ Len(last.matches) >= 3
    /\ last.matches[1].page = 1
    /\ last.matches[2].page = 1
    /\ last.matches[3].page = 2

(***************************************************************************)
(* Claims about the application as a whole (specification Spec).           *)
(***************************************************************************)

\* C8: the Page Processor runs only for a load that was a cache miss: no
\* process_pages run is under way, or has just returned, for a load that
\* restored the document's texts from a cache entry.
C8_RunsOnlyOnMiss ==
    \A i \in Threads :
        Thread(i).pc # "idle" => Thread(i).load_cache # "valid"

\* every page of the current document was processed without a failure
FullyProcessed ==
    /\ current_pdf # None
    /\ page_texts = [p \in 1..PageCount(current_pdf) |->
                        PageText(OcrResult(current_pdf, p - 1))]

\* the index is the one load_pdf read from a cache entry
Restored ==
    /\ word_locations # EmptyDict
    /\ \A key \in DOMAIN word_locations : key[1] = "str"

\* the box search_text returns for the match at offset s of page page_num
\* on the index process_pages builds for the current document
FreshBox(page_num, s) ==
    Get(PageLocations(OcrResult(current_pdf, page_num - 1)),
        IntKey(SplitCount(Slice(page_texts[page_num], 0, s))), ZeroRect)

\* C16: a search of the index restored from the cache entry of a run
\* returns the results the search of the freshly built index returns,
\* the boxes included.
C16_RestoredSearchesAlike ==
    (Searched /\ FullyProcessed /\ Restored) =>
        \A i \in 1..Len(last.matches) :
            last.matches[i].bbox =
                FreshBox(last.matches[i].page, last.matches[i].position)

\* the index is the one process_pages built in this program run
Fresh == \A key \in DOMAIN word_locations : key[1] = "int"

\* every OCR token of the current document is non-empty and free of blanks
CleanTokens ==
    \A p \in 0..(PageCount(current_pdf) - 1) :
        \A n \in 1..Len(Words(OcrResult(current_pdf, p))) :
            LET text == Words(OcrResult(current_pdf, p))[n].text IN
            /\ text # <<>>
            /\ \A c \in 1..Len(text) : text[c] # " "

\* the 0-based ordinal of the token that holds offset s of the page text t,
\* tokens being joined by single blanks
TokenAt(t, s) == Cardinality({c \in 1..s : t[c] = " "})

\* C17: on a freshly processed page whose OCR tokens are non-empty and free
\* of whitespace, a result's box is the box recorded for the token that
\* contains the match start, whether the match starts at the token's first
\* character or inside it.
C17_BoxOfContainingToken ==
    (Searched /\ FullyProcessed /\ Fresh /\ CleanTokens) =>
        \A i \in 1..Len(last.matches) :
            LET r == last.matches[i]
                t == page_texts[r.page]
            IN  (r.position < Len(t) /\ t[r.position + 1] # " ") =>
                    r.bbox = PageLocations(OcrResult(current_pdf, r.page - 1))
                                 [IntKey(TokenAt(t, r.position))]

\* the process_pages calls that have not returned yet
Running == {i \in Threads : Thread(i).pc \in {"entry", "page", "store", "save"}}

\* C14: MainWindow never starts a process_pages run while an earlier one
\* has not finished: at most one OCRWorker is running at any time.
C14_OneWorker == Cardinality(Running) <= 1

\* the step is a search of the index by the GUI thread
SearchStep == \E keyword \in GuiKeywords \ {<<>>} : Searching(keyword)

\* the step is a load_pdf of a readable document by the GUI thread
LoadByGui == (\E file_name \in Paths : browse_file(file_name)) \/ process_pdf

\* C15: while a process_pages run is in progress on a worker, the GUI
\* thread neither searches the index nor loads a document over it.
C15_IndexLeftAlone ==
    [][Running # {} => ~SearchStep /\ ~LoadByGui]_vars

\* the texts of the pages of the document at path, as process_pages
\* produces them
OwnTexts(path) ==
    {PageText(OcrResult(path, p)) : p \in 0..(PageCount(path) - 1)}

\* the cache file holds only texts and locations of pages of the document
\* at path, the locations of page p under p's key
OwnEntry(file, path) ==
    /\ \A n \in 1..Len(file.texts) : file.texts[n] \in OwnTexts(path)
    /\ \A key \in DOMAIN file.locations :
          /\ key[2] < PageCount(path)
          /\ file.locations[key] =
                 JsonPage(PageLocations(OcrResult(path, key[2])))

\* C18: whatever the interleaving of the user's events with the workers,
\* a cache entry under a document's fingerprint holds only texts and
\* locations produced from that document's own pages.
C18_CacheIntegrity ==
    \A path \in Paths :
        get_cache_path(path) \in DOMAIN cache =>
            OwnEntry(cache[get_cache_path(path)], path)

\* the step changes what the viewer displays
PageChanged ==
    \/ viewer'.current_pdf # viewer.current_pdf
    \/ viewer'.current_page # viewer.current_page

\* C19: a double click on a result of the search just made (no load since)
\* leaves the viewer on page r.page - 1 of the document that was searched,
\* with the highlights [r.bbox]; any other step that changes the displayed
\* page leaves the highlights empty.
C19_HighlightOnResultPage ==
    [][/\ \A i \in 1..Len(gui.current_results) :
            (result_clicked(i) /\ last.op = "search_text") =>
                /\ viewer'.current_pdf = current_pdf
                /\ viewer'.current_page = gui.current_results[i].page - 1
                /\ viewer'.highlights = <<gui.current_results[i].bbox>>
       /\ (PageChanged
             /\ ~\E i \in 1..Len(gui.current_results) : result_clicked(i))
            => viewer'.highlights = <<>>]_vars

(***************************************************************************)
(* The scheduler runs every started worker thread and the GUI thread's     *)
(* event loop delivers every queued signal: weak fairness of the worker's  *)
(* steps and of the finished handler.  The user's events are not forced.   *)
(***************************************************************************)
\* one program run: the hash seed is drawn once and nothing depends on
\* which one it is
InitLive == Init /\ seed = 0

SpecLive ==
    /\ InitLive
    /\ [][Next]_vars
    /\ WF_vars(Entry)
    /\ WF_vars(Ocr)
    /\ WF_vars(Store)
    /\ WF_vars(Save)
    /\ WF_vars(on_processing_finished)

\* a process_pages run is under way or its finished signal is still queued
Busy == \E i \in Threads : Thread(i).pc # "idle"

\* the step delivers a finished signal: one run fewer is on record
FinishedDelivered ==
    \/ run.pc = "done" /\ run'.pc = "idle"
    \/ Len(older') < Len(older)

\* C13: a started run goes through its pages 0..N-1 in order, none skipped
\* and none left out, then ends; its finished signal is eventually
\* delivered, and the delivery leaves Search enabled and Process disabled.
C13_RunCompletes ==
    /\ [](\A i \in Threads :
            LET w == Thread(i) IN
            /\ w.page_num \in 0..w.total_pages
            /\ w.failed \subseteq 0..(w.page_num - 1)
            /\ w.pc \in {"page", "store"} => w.page_num < w.total_pages
            /\ w.pc \in {"save", "done"} => w.page_num = w.total_pages)
    /\ [][FinishedDelivered =>
            gui'.search_enabled /\ ~gui'.process_enabled]_vars
    /\ Busy ~> ~Busy

\* a run over a two-page document went through both pages, and its
\* finished signal has been delivered
C13_Witness ==
    /\ ~Busy
    /\ progress = << <<1, 2>>, <<2, 2>> >>
    /\ gui.search_enabled
    /\ ~gui.process_enabled

=============================================================================
